---- MODULE Spec2Model ----
(***************************************************************************)
(* A model of the stdio gateway of ToolUniverse's examples:                *)
(*   - examples/test_tools_file_filter/stdio_wrapper.py: the frame         *)
(*     classifier (the test of line 44) and the stream splitter (main);    *)
(*   - examples/compact_mode/test_stdio_simple.py: the client (main) and   *)
(*     its tool call (test_tool), against a server that is free to write   *)
(*     any line, to stay silent, or to exit.                               *)
(* A line of text is a sequence of one-character strings.                  *)
(***************************************************************************)
EXTENDS Integers, Sequences, FiniteSets, TLC

VARIABLES
    \* the frame classifier applied to one line
    cLine,          \* the line handed to the test of stdio_wrapper.py:44
    cResult,        \* "unclassified", then "Protocol" or "Diagnostic"
    \* stdio_wrapper.py main
    wpc,            \* "reading" (the for loop), "waiting" (p.wait), "exited"
    input,          \* the lines p.stdout has yielded so far, in order
    out,            \* what was written to sys.stdout, in order
    err,            \* what was written to sys.stderr, in order
    stream,         \* the child's stdout: "open" or "eof"
    child,          \* the child process: running, exited(code), signaled(sig)
    returncode,     \* p.returncode: None until p.wait() returns
    exitStatus,     \* the wrapper's own wait status, once it has exited
    \* test_stdio_simple.py main and test_tool
    cpc,            \* where main stands: see ClientPositions
    testNo,         \* the index in tests of the call in progress
    tries,          \* lines test_tool has read in the call in progress
    stdinLog,       \* what main and test_tool wrote to server.stdin, in order
    pipe,           \* lines the server wrote to its stdout, not yet read
    server,         \* the server process: "running" or "exited"
    initResponded,  \* the line read at line 93 was the Response to initialize
    success_count,  \* main's count of calls that returned True
    outcome,        \* how the last call ended: see NoOutcome
    exc,            \* the exception that ended main, or "none"
    unparsable,     \* lines of the call in progress that json.loads rejected
    \* check_tool_name_lengths.py
    npc,            \* "idle", "loop" (lines 36-40), "returned" (line 72), "exit"
    tool_names,     \* the names get_available_tools returned
    max_len,        \* args.max_len
    nameIdx,        \* the index in tool_names of the name the loop is at
    valid,          \* check_tool_name_lengths' list valid
    invalid,        \* check_tool_name_lengths' list invalid
    exitCode        \* what main returns, None before

wrapperVars == <<wpc, input, out, err, stream, child, returncode, exitStatus>>
classifierVars == <<cLine, cResult>>
clientVars ==
    <<cpc, testNo, tries, stdinLog, pipe, server, initResponded,
      success_count, outcome, exc, unparsable>>
lengthVars == <<npc, tool_names, max_len, nameIdx, valid, invalid, exitCode>>
vars == <<classifierVars, wrapperVars, clientVars, lengthVars>>

\* ---------------------------------------------------------------- bounds
MaxLen == 3             \* characters of a line handed to the classifier
MaxLines == 3           \* lines the child writes before it closes its output
MaxId == 2              \* the largest id a line of the server carries
PipeCap == 1            \* lines the server may write ahead of the client
MaxNameLen == 2         \* characters of a tool name
MaxNames == 3           \* tool names get_available_tools returns

\* ------------------------------------------------------- frame classifier
NL == "\n"
Whitespace == {" ", "\t", NL}
Alphabet == {" ", "\t", "{", "[", "}", "x"}

\* an lstrip that strips nothing (the classifier without its lstrip)
lstripNothing(s) == s

\* str.lstrip() without an argument drops the leading whitespace
RECURSIVE lstrip(_)
lstrip(s) ==
    IF s # <<>> /\ Head(s) \in Whitespace THEN lstrip(Tail(s)) ELSE s

\* str.startswith(tuple) for one-character prefixes
startswith(s, prefixes) == s # <<>> /\ Head(s) \in prefixes

\* line.lstrip().startswith(("{", "["))
IsProtocolLine(line) == startswith(lstrip(line), {"{", "["})

classify(line) == IF IsProtocolLine(line) THEN "Protocol" ELSE "Diagnostic"

RECURSIVE SeqsUpTo(_, _)
SeqsUpTo(S, n) ==
    IF n = 0 THEN {<<>>}
    ELSE LET shorter == SeqsUpTo(S, n - 1)
         IN  shorter \cup {Append(s, c) : s \in shorter, c \in S}

\* a line as text-mode iteration yields it: its text, then the terminator
\* (the last line of a stream may lack it)
RawLines ==
    LET texts == SeqsUpTo(Alphabet, MaxLen)
    IN  texts \cup {Append(t, NL) : t \in texts}

Classify ==
    /\ cResult = "unclassified"
    /\ cResult' = classify(cLine)
    /\ UNCHANGED cLine
    /\ UNCHANGED <<wrapperVars, clientVars, lengthVars>>

\* ---------------------------------------------------------- stream splitter
Text(s) == Append(s, NL)

\* what the child may write: JSON, bracketed and braced log text, plain text,
\* an empty line, blanks
WrapperLines ==
    { Text(<<"{", "}">>),           \* a JSON object
      Text(<<" ", "{", "}">>),      \* the same, indented
      Text(<<"[", "x", "]">>),      \* a log line such as [INFO]
      Text(<<"{", "x">>),           \* a brace that opens no JSON
      Text(<<"x", "{", "}">>),      \* text before a brace
      Text(<<"x">>),                \* plain text
      Text(<<>>),                   \* an empty line
      Text(<<" ", "\t">>),          \* whitespace only
      <<"{", "}">>,                 \* a last line with no terminator
      <<"x">> }

Terminated(line) == line # <<>> /\ line[Len(line)] = NL

ExitCodes == {0, 1, 2, 255}
Signals == {9, 15}
Running == [kind |-> "running", code |-> 0]
Exited(c) == [kind |-> "exited", code |-> c]
Signaled(s) == [kind |-> "signaled", code |-> s]
ChildStatuses == {Exited(c) : c \in ExitCodes} \cup {Signaled(s) : s \in Signals}

None == "None"

\* Popen.returncode after wait(): the exit code, or -N for a child that
\* signal N killed
Returncode(status) ==
    IF status.kind = "signaled" THEN 0 - status.code ELSE status.code

\* sys.exit(n): the process exits with the low eight bits of n
SysExit(n) == Exited(n % 256)

\* a write that puts the line before what stdout already holds
WriteStdoutFront(line) == out' = <<line>> \o out /\ UNCHANGED err

\* sys.stdout.write(line); sys.stdout.flush()
WriteStdout(line) == out' = Append(out, line) /\ UNCHANGED err

\* sys.stderr.write(line); sys.stderr.flush()
WriteStderr(line) == err' = Append(err, line) /\ UNCHANGED out

\* one turn of the loop of lines 43-49: the child has written `line`
WrapperLine(line) ==
    /\ wpc = "reading"
    /\ stream = "open"
    /\ child = Running
    /\ Len(input) < MaxLines
    /\ input' = Append(input, line)
    /\ IF IsProtocolLine(line) THEN WriteStdout(line) ELSE WriteStderr(line)
    \* a line with no terminator is the last one: end-of-input follows it
    /\ stream' = IF Terminated(line) THEN "open" ELSE "eof"
    /\ UNCHANGED <<wpc, child, returncode, exitStatus>>
    /\ UNCHANGED <<classifierVars, clientVars, lengthVars>>

\* the child closes its stdout and runs on
ChildClose ==
    /\ child = Running
    /\ stream = "open"
    /\ stream' = "eof"
    /\ UNCHANGED <<wpc, input, out, err, child, returncode, exitStatus>>
    /\ UNCHANGED <<classifierVars, clientVars, lengthVars>>

\* the child ends: it exits with a code, or a signal kills it
ChildExit(status) ==
    /\ child = Running
    /\ child' = status
    /\ stream' = "eof"
    /\ UNCHANGED <<wpc, input, out, err, returncode, exitStatus>>
    /\ UNCHANGED <<classifierVars, clientVars, lengthVars>>

\* p.stdout is exhausted: the for loop ends
WrapperEOF ==
    /\ wpc = "reading"
    /\ stream = "eof"
    /\ wpc' = "waiting"
    /\ UNCHANGED <<input, out, err, stream, child, returncode, exitStatus>>
    /\ UNCHANGED <<classifierVars, clientVars, lengthVars>>

\* p.wait() returns once the child has ended; sys.exit(p.returncode)
WrapperExit ==
    /\ wpc = "waiting"
    /\ child # Running
    /\ returncode' = Returncode(child)
    /\ exitStatus' = SysExit(Returncode(child))
    /\ wpc' = "exited"
    /\ UNCHANGED <<input, out, err, stream, child>>
    /\ UNCHANGED <<classifierVars, clientVars, lengthVars>>

\* ------------------------------------------- test_stdio_simple.py: the data
InitId == 0             \* "id": 0 of init_request
ToolId == 1             \* "id": 1 of every request of test_tool
MaxTries == 10          \* for _ in range(10)

Ids == 0..MaxId

\* the four calls of main
tests == <<"list_tools", "grep_tools", "get_tool_info", "execute_tool">>
total_count == Len(tests)

NoId == -1
InitRequest == [method |-> "initialize", id |-> InitId, name |-> ""]
InitializedNotification ==
    [method |-> "notifications/initialized", id |-> NoId, name |-> ""]
ToolRequest(tool_name) ==
    [method |-> "tools/call", id |-> ToolId, name |-> tool_name]

\* A line of the server's stdout, by what test_tool makes of it:
\*   blank    nothing but whitespace
\*   text     json.loads raises JSONDecodeError
\*   object   a JSON object with neither "result" nor "error"
\*   array    a JSON array
\*   scalar   a JSON number, null, true or false
\*   result   a JSON object with "result"; shape says what the result holds
\*   error    a JSON object with "error" and no "result"
Line(kind, id, shape) == [kind |-> kind, id |-> id, shape |-> shape]
NoLine == Line("none", NoId, "none")

\* what "result" holds:
\*   text           {"content": [{"text": "t"}]}
\*   no_content     {} (no "content" key)
\*   no_text        {"content": [{}]}
\*   empty_content  {"content": []}
\*   not_object     null
ResultShapes == {"text", "no_content", "no_text", "empty_content", "not_object"}

ServerLines ==
    {Line(k, NoId, "none") : k \in {"blank", "text", "object", "array", "scalar"}}
    \cup {Line("result", i, sh) : i \in Ids, sh \in ResultShapes}
    \cup {Line("error", i, "none") : i \in Ids}

ClientPositions ==
    { "idle",           \* main is not running
      "write_init",     \* lines 79-90 are next
      "read_init",      \* blocked in the readline of line 93
      "notify",         \* lines 96-103 are next
      "tool_write",     \* test_tool is called: lines 17-27 are next
      "tool_read",      \* test_tool is blocked in the readline of line 31
      "returned",       \* test_tool has returned to line 127
      "cleanup",        \* lines 136-137 are next
      "done",
      "crashed" }       \* an exception ended main

\* how a call ended: ret is "True", "False", or "raised"; why says which
\* branch ended it; line is the line that decided it; text is result_text
Outcome(ret, why, line, text) ==
    [ret |-> ret, why |-> why, line |-> line, text |-> text]
NoOutcome == Outcome("none", "none", NoLine, "")

\* main is not running
ClientIdle ==
    /\ cpc = "idle"
    /\ testNo = 0 /\ tries = 0
    /\ stdinLog = <<>> /\ pipe = <<>>
    /\ server = "exited"
    /\ initResponded = FALSE
    /\ success_count = 0
    /\ outcome = NoOutcome
    /\ exc = "none"
    /\ unparsable = 0

\* main after subprocess.Popen and time.sleep(2)
ClientStart ==
    /\ cpc = "write_init"
    /\ testNo = 0 /\ tries = 0
    /\ stdinLog = <<>> /\ pipe = <<>>
    /\ server = "running"
    /\ initResponded = FALSE
    /\ success_count = 0
    /\ outcome = NoOutcome
    /\ exc = "none"
    /\ unparsable = 0

\* ------------------------------------------------------------- the server
ClientRuns == cpc \notin {"idle", "done", "crashed"}

\* the server writes a line to its stdout
ServerWrite(line) ==
    /\ ClientRuns
    /\ server = "running"
    /\ Len(pipe) < PipeCap
    /\ pipe' = Append(pipe, line)
    /\ UNCHANGED <<cpc, testNo, tries, stdinLog, server, initResponded,
                   success_count, outcome, exc, unparsable>>
    /\ UNCHANGED <<classifierVars, wrapperVars, lengthVars>>

\* the server ends of its own accord
ServerExit ==
    /\ ClientRuns
    /\ server = "running"
    /\ server' = "exited"
    /\ UNCHANGED <<cpc, testNo, tries, stdinLog, pipe, initResponded,
                   success_count, outcome, exc, unparsable>>
    /\ UNCHANGED <<classifierVars, wrapperVars, lengthVars>>

\* --------------------------------------------------------------- the client
\* server.stdin.write(...); server.stdin.flush(): the write raises
\* BrokenPipeError once the server has exited
WriteOrRaise(request, next) ==
    IF server = "running"
    THEN /\ stdinLog' = Append(stdinLog, request)
         /\ cpc' = next
         /\ exc' = exc
    ELSE /\ stdinLog' = stdinLog
         /\ cpc' = "crashed"
         /\ exc' = "BrokenPipeError"

\* readline() has something to return: a line, or "" at end-of-input
ReadReady == pipe # <<>> \/ server = "exited"
AtEof == pipe = <<>> /\ server = "exited"

\* lines 79-90: the initialize Request
WriteInit ==
    /\ cpc = "write_init"
    /\ WriteOrRaise(InitRequest, "read_init")
    /\ UNCHANGED <<testNo, tries, pipe, server, initResponded,
                   success_count, outcome, unparsable>>
    /\ UNCHANGED <<classifierVars, wrapperVars, lengthVars>>

\* the Response to the initialize Request
IsInitResponse(line) == line.kind \in {"result", "error"} /\ line.id = InitId

\* line 93: server.stdout.readline(), whatever it returns
ReadInit ==
    /\ cpc = "read_init"
    /\ ReadReady
    /\ IF AtEof
       THEN /\ initResponded' = FALSE
            /\ pipe' = pipe
       ELSE /\ initResponded' = IsInitResponse(Head(pipe))
            /\ pipe' = Tail(pipe)
    /\ cpc' = "notify"
    /\ UNCHANGED <<testNo, tries, stdinLog, server, success_count, outcome,
                   exc, unparsable>>
    /\ UNCHANGED <<classifierVars, wrapperVars, lengthVars>>

\* lines 96-103: the initialized Notification; then the loop of line 125
Notify ==
    /\ cpc = "notify"
    /\ WriteOrRaise(InitializedNotification, "tool_write")
    /\ testNo' = 1
    /\ UNCHANGED <<tries, pipe, server, initResponded, success_count, outcome,
                   unparsable>>
    /\ UNCHANGED <<classifierVars, wrapperVars, lengthVars>>

\* test_tool, lines 17-27: the tools/call Request
ToolWrite ==
    /\ cpc = "tool_write"
    /\ WriteOrRaise(ToolRequest(tests[testNo]), "tool_read")
    /\ tries' = 0
    /\ unparsable' = 0
    /\ outcome' = NoOutcome
    /\ UNCHANGED <<testNo, pipe, server, initResponded, success_count>>
    /\ UNCHANGED <<classifierVars, wrapperVars, lengthVars>>

\* result_text of lines 43-44, for the shapes that raise nothing
ResultText(shape) == IF shape = "text" THEN "t" ELSE ""

\* lines 40-54 without the except clause of line 55: a line that is not
\* JSON raises
OnLineNoExcept(line) ==
    CASE line.kind = "text" -> Outcome("raised", "JSONDecodeError", line, "")
      [] line.kind \in {"object", "array"} -> Outcome("none", "skip", line, "")
      [] line.kind = "scalar" -> Outcome("raised", "TypeError", line, "")
      [] line.kind = "error" -> Outcome("False", "error", line, "")
      [] line.kind = "result" /\ line.shape = "not_object" ->
            Outcome("raised", "AttributeError", line, "")
      [] line.kind = "result" /\ line.shape = "empty_content" ->
            Outcome("raised", "IndexError", line, "")
      [] line.kind = "result"
            /\ line.shape \in {"text", "no_content", "no_text"} ->
            Outcome("True", "result", line, ResultText(line.shape))
      [] OTHER -> Outcome("none", "skip", line, "")

\* lines 40-56 on a line that is not blank: what the call does with it
OnLine(line) ==
    CASE line.kind = "text" -> Outcome("none", "skip", line, "")
      [] line.kind \in {"object", "array"} -> Outcome("none", "skip", line, "")
      [] line.kind = "scalar" -> Outcome("raised", "TypeError", line, "")
      [] line.kind = "error" -> Outcome("False", "error", line, "")
      [] line.kind = "result" /\ line.shape = "not_object" ->
            Outcome("raised", "AttributeError", line, "")
      [] line.kind = "result" /\ line.shape = "empty_content" ->
            Outcome("raised", "IndexError", line, "")
      [] line.kind = "result"
            /\ line.shape \in {"text", "no_content", "no_text"} ->
            Outcome("True", "result", line, ResultText(line.shape))
      [] OTHER -> Outcome("none", "skip", line, "")

\* lines 30-59: one readline and what follows it, up to the next readline
\* or the return
ToolRead ==
    /\ cpc = "tool_read"
    /\ tries < MaxTries
    /\ ReadReady
    /\ LET line == IF AtEof THEN NoLine ELSE Head(pipe)
           res == IF AtEof THEN Outcome("False", "eof", NoLine, "")
                  ELSE IF line.kind = "blank"
                       THEN Outcome("none", "skip", line, "")
                       ELSE OnLine(line)
       IN  /\ pipe' = IF AtEof THEN pipe ELSE Tail(pipe)
           /\ unparsable' =
                 IF line.kind = "text" THEN unparsable + 1 ELSE unparsable
           /\ CASE res.ret = "none" /\ tries + 1 < MaxTries ->
                     \* continue: the next turn of the loop
                     /\ tries' = tries + 1
                     /\ UNCHANGED <<cpc, outcome, exc>>
                [] res.ret = "none" /\ tries + 1 >= MaxTries ->
                     \* the loop is over: lines 58-59
                     /\ tries' = tries + 1
                     /\ cpc' = "returned"
                     /\ outcome' = Outcome("False", "exhausted", NoLine, "")
                     /\ exc' = exc
                [] res.ret = "raised" ->
                     /\ tries' = tries + 1
                     /\ cpc' = "crashed"
                     /\ outcome' = res
                     /\ exc' = res.why
                [] OTHER ->
                     /\ tries' = tries + 1
                     /\ cpc' = "returned"
                     /\ outcome' = res
                     /\ exc' = exc
    /\ UNCHANGED <<testNo, stdinLog, server, initResponded, success_count>>
    /\ UNCHANGED <<classifierVars, wrapperVars, lengthVars>>

\* lines 125-129: count the call, go to the next
MainNext ==
    /\ cpc = "returned"
    /\ success_count' =
          IF outcome.ret = "True" THEN success_count + 1 ELSE success_count
    /\ IF testNo < total_count
       THEN testNo' = testNo + 1 /\ cpc' = "tool_write"
       ELSE testNo' = testNo /\ cpc' = "cleanup"
    \* test_tool's locals and the value it returned are gone
    /\ outcome' = NoOutcome
    /\ tries' = 0
    /\ unparsable' = 0
    /\ UNCHANGED <<stdinLog, pipe, server, initResponded, exc>>
    /\ UNCHANGED <<classifierVars, wrapperVars, lengthVars>>

\* lines 136-137: server.terminate(); server.wait()
Cleanup ==
    /\ cpc = "cleanup"
    /\ server' = "exited"
    /\ cpc' = "done"
    /\ UNCHANGED <<testNo, tries, stdinLog, pipe, initResponded,
                   success_count, outcome, exc, unparsable>>
    /\ UNCHANGED <<classifierVars, wrapperVars, lengthVars>>

\* ------------------------------------------- check_tool_name_lengths.py
DefaultMaxLen == 64     \* default=64 of --max-len
NameAlphabet == {"a", "b"}

\* the tool names there may be, and the lists of them
Names == SeqsUpTo(NameAlphabet, MaxNameLen)
NameLists == SeqsUpTo(Names, MaxNames)

\* the values of --max-len: around the lengths of the names, and the default
MaxLenArgs == (-1..(MaxNameLen + 1)) \cup {DefaultMaxLen}

\* a comparison that rejects a name of exactly max_len characters
FitsStrictly(name, limit) == Len(name) < limit

\* len(name) <= max_len
Fits(name, limit) == Len(name) <= limit

\* main is not running
LengthsIdle ==
    /\ npc = "idle"
    /\ tool_names = <<>>
    /\ max_len = DefaultMaxLen
    /\ nameIdx = 1
    /\ valid = <<>> /\ invalid = <<>>
    /\ exitCode = None

\* lines 36-40: one turn of the loop
CheckName ==
    /\ npc = "loop"
    /\ nameIdx <= Len(tool_names)
    /\ LET name == tool_names[nameIdx]
       IN  IF Fits(name, max_len)
           THEN valid' = Append(valid, name) /\ UNCHANGED invalid
           ELSE invalid' = Append(invalid, name) /\ UNCHANGED valid
    /\ nameIdx' = nameIdx + 1
    /\ UNCHANGED <<npc, tool_names, max_len, exitCode>>
    /\ UNCHANGED <<classifierVars, wrapperVars, clientVars>>

\* line 42: return valid, invalid, to line 72 of main
CheckReturn ==
    /\ npc = "loop"
    /\ nameIdx > Len(tool_names)
    /\ npc' = "returned"
    /\ UNCHANGED <<tool_names, max_len, nameIdx, valid, invalid, exitCode>>
    /\ UNCHANGED <<classifierVars, wrapperVars, clientVars>>

\* lines 73-77: print the report; return 1 if invalid else 0
MainReturn ==
    /\ npc = "returned"
    /\ exitCode' = IF invalid # <<>> THEN 1 ELSE 0
    /\ npc' = "exit"
    /\ UNCHANGED <<tool_names, max_len, nameIdx, valid, invalid>>
    /\ UNCHANGED <<classifierVars, wrapperVars, clientVars>>

\* main before the loop: nothing read, nothing written, the child running
WrapperStart ==
    /\ wpc = "reading"
    /\ input = <<>> /\ out = <<>> /\ err = <<>>
    /\ stream = "open"
    /\ child = Running
    /\ returncode = None
    /\ exitStatus = Running

\* the classifier before it is handed a line
ClassifierIdle == cLine = <<>> /\ cResult = "unclassified"

\* ------------------------------------------------------- the specifications
InitClassifier ==
    /\ cLine \in RawLines
    /\ cResult = "unclassified"
    /\ WrapperStart
    /\ ClientIdle
    /\ LengthsIdle

NextClassifier == Classify

SpecClassifier == InitClassifier /\ [][NextClassifier]_vars

InitWrapper ==
    /\ WrapperStart
    /\ ClassifierIdle
    /\ ClientIdle
    /\ LengthsIdle

NextWrapper ==
    \/ \E line \in WrapperLines : WrapperLine(line)
    \/ ChildClose
    \/ \E status \in ChildStatuses : ChildExit(status)
    \/ WrapperEOF
    \/ WrapperExit

SpecWrapper == InitWrapper /\ [][NextWrapper]_vars

InitClient ==
    /\ ClientStart
    /\ ClassifierIdle
    /\ WrapperStart
    /\ LengthsIdle

ClientNext ==
    \/ WriteInit
    \/ ReadInit
    \/ Notify
    \/ ToolWrite
    \/ ToolRead
    \/ MainNext
    \/ Cleanup

NextClient ==
    \/ \E line \in ServerLines : ServerWrite(line)
    \/ ServerExit
    \/ WriteInit
    \/ ReadInit
    \/ Notify
    \/ ToolWrite
    \/ ToolRead
    \/ MainNext
    \/ Cleanup

SpecClient == InitClient /\ [][NextClient]_vars

\* main of check_tool_name_lengths.py at line 36: the arguments parsed, the
\* names loaded, both lists empty
InitLengths ==
    /\ npc = "loop"
    /\ tool_names \in NameLists
    /\ max_len \in MaxLenArgs
    /\ nameIdx = 1
    /\ valid = <<>> /\ invalid = <<>>
    /\ exitCode = None
    /\ ClassifierIdle
    /\ WrapperStart
    /\ ClientIdle

NextLengths ==
    \/ CheckName
    \/ CheckReturn
    \/ MainReturn

SpecLengths == InitLengths /\ [][NextLengths]_vars

\* main at line 125 with the handshake done and all but the last two calls
\* made, each a success: the last two calls of the loop, and the cleanup
InitToolCall ==
    /\ cpc = "tool_write"
    /\ testNo = total_count - 1
    /\ tries = 0
    /\ stdinLog =
          <<InitRequest, InitializedNotification>>
          \o [i \in 1..(total_count - 2) |-> ToolRequest(tests[i])]
    /\ pipe = <<>>
    /\ server = "running"
    /\ initResponded = TRUE
    /\ success_count = total_count - 2
    /\ outcome = NoOutcome
    /\ exc = "none"
    /\ unparsable = 0
    /\ ClassifierIdle
    /\ WrapperStart
    /\ LengthsIdle

NextToolCall ==
    \/ \E line \in ServerLines : ServerWrite(line)
    \/ ServerExit
    \/ ToolWrite
    \/ ToolRead
    \/ MainNext
    \/ Cleanup

SpecToolCall == InitToolCall /\ [][NextToolCall]_vars

\* the client runs whenever it can; the server owes nothing
FairSpecClient == SpecClient /\ WF_vars(ClientNext)

\* ------------------------------------------ properties of stdio_wrapper.py

\* the first character of `line` that is not whitespace is { or [
FirstNonWhitespaceOpens(line) ==
    \E i \in 1..Len(line) :
        /\ line[i] \in {"{", "["}
        /\ \A j \in 1..(i - 1) : line[j] \in {" ", "\t", "\n"}

\* C1: the classifier answers Protocol exactly for the lines whose first
\* non-whitespace character is { or [; every other line, an empty or
\* whitespace-only one included, is Diagnostic.
C1_ProtocolIffFirstNonWhitespaceOpens ==
    cResult # "unclassified" =>
        /\ cResult \in {"Protocol", "Diagnostic"}
        /\ (cResult = "Protocol") <=> FirstNonWhitespaceOpens(cLine)

\* a line with whitespace before its brace has been classified Protocol
C1_Witness ==
    /\ cResult = "Protocol"
    /\ Len(cLine) >= 2
    /\ cLine[1] \in {" ", "\t"}

RECURSIVE rstrip(_)
rstrip(s) ==
    IF s # <<>> /\ s[Len(s)] \in Whitespace
    THEN rstrip(SubSeq(s, 1, Len(s) - 1)) ELSE s

strip(s) == rstrip(lstrip(s))

\* a JSON value written with the characters of the lines above: an empty
\* object, an empty array, or an array of one value
RECURSIVE IsJsonValue(_)
IsJsonValue(t) ==
    /\ Len(t) >= 2
    /\ LET inner == strip(SubSeq(t, 2, Len(t) - 1))
       IN  \/ t[1] = "{" /\ t[Len(t)] = "}" /\ inner = <<>>
           \/ t[1] = "[" /\ t[Len(t)] = "]"
                /\ (inner = <<>> \/ IsJsonValue(inner))

\* json.loads(line) succeeds
ParsesAsJson(line) == IsJsonValue(strip(line))

Count(line, lines) == Cardinality({i \in 1..Len(lines) : lines[i] = line})

\* C2: every line the child wrote is on exactly one sink, once and
\* unmodified; no line that is not JSON is on the structured channel, and
\* every such line is on the diagnostic sink.
C2_OnceAndNoNonJsonOnStdout ==
    /\ \A line \in WrapperLines :
          Count(line, out) + Count(line, err) = Count(line, input)
    /\ Len(out) + Len(err) = Len(input)
    /\ \A i \in 1..Len(out) : ParsesAsJson(out[i])
    /\ \A i \in 1..Len(input) :
          ~ParsesAsJson(input[i]) => Count(input[i], err) = Count(input[i], input)

IsProtocol(line) == FirstNonWhitespaceOpens(line)
IsDiagnostic(line) == ~FirstNonWhitespaceOpens(line)

\* C3: the structured channel holds exactly the Protocol lines of the input,
\* in input order, and the diagnostic sink exactly the Diagnostic lines, in
\* input order.
C3_ChannelsAreOrderedSubsequences ==
    /\ out = SelectSeq(input, IsProtocol)
    /\ err = SelectSeq(input, IsDiagnostic)

\* two different Protocol lines with a Diagnostic line between them
C3_Witness ==
    /\ Len(input) = 3
    /\ IsProtocol(input[1]) /\ IsDiagnostic(input[2]) /\ IsProtocol(input[3])
    /\ input[1] # input[3]
    /\ Len(out) = 2 /\ Len(err) = 1

\* C4: once the splitter has exited, its exit status is the child's, for
\* every way the child can end.
C4_ExitStatusIsTheChilds ==
    wpc = "exited" => exitStatus = child

\* --------------------------------------- properties of test_stdio_simple.py

Written(method) == {i \in 1..Len(stdinLog) : stdinLog[i].method = method}

\* C5: a tools/call Request is on the server's stdin only after the
\* initialize Request was written, the Response carrying its id was
\* received, and the initialized Notification was written, in this order.
C5_NoToolCallBeforeHandshake ==
    \A i \in Written("tools/call") :
        /\ \E a \in Written("initialize") :
              \E b \in Written("notifications/initialized") : a < b /\ b < i
        /\ initResponded

\* the id of the Request of the call in progress
CallId ==
    IF cpc = "read_init" THEN InitId ELSE stdinLog[Len(stdinLog)].id

\* C6: the outcome a call returns is that of the Response whose id is the
\* id of the call's own Request.
C6_OutcomeIsOfOwnId ==
    (cpc = "returned" /\ outcome.why \in {"result", "error"}) =>
        outcome.line.id = stdinLog[Len(stdinLog)].id

\* the ids with a pending slot: those of the Requests awaiting their reply
Pending == IF cpc \in {"read_init", "tool_read"} THEN {CallId} ELSE {}

IsResponse(line) == line.kind \in {"result", "error"}

\* the client takes from its input a Response whose id has no pending slot
TakesUnmatchedResponse ==
    /\ cpc \in {"read_init", "tool_read"}
    /\ pipe # <<>>
    /\ IsResponse(Head(pipe))
    /\ Head(pipe).id \notin Pending
    /\ pipe' = Tail(pipe)

\* C7: a Response whose id has no pending slot is dropped: the call in
\* progress is still pending after it, and no call returns it as its outcome.
C7_UnmatchedResponseIsDropped ==
    [][TakesUnmatchedResponse =>
          /\ cpc' = cpc
          /\ outcome' = outcome
          /\ Pending' = Pending]_vars

\* a Request has been written and its call has not ended
Awaiting == cpc \in {"read_init", "tool_read"}

\* C8: every issued Request completes, with a Response or with a timeout,
\* whatever the server does: the caller never blocks for ever.
C8_EveryRequestCompletes == Awaiting ~> ~Awaiting

HandshakeComplete ==
    /\ Written("initialize") # {}
    /\ initResponded
    /\ Written("notifications/initialized") # {}

\* C9: a tool call made while the handshake is not complete is never
\* reported as a success.
C9_NoSuccessBeforeHandshake ==
    (cpc = "returned" /\ outcome.ret = "True") => HandshakeComplete

\* the result of `line` holds a content list whose first element has a text
HasText(line) == line.kind = "result" /\ line.shape = "text"

\* C10: a call decided by a Response with a result is a Success with the
\* text of the first content element when there is one, and otherwise the
\* Failure "malformed result shape": never a Success, never a crash.
C10_MalformedResultIsFailure ==
    (cpc \in {"returned", "crashed"} /\ outcome.line.kind = "result") =>
        IF HasText(outcome.line)
        THEN outcome.ret = "True" /\ outcome.text = "t"
        ELSE outcome.ret = "False" /\ outcome.why = "malformed result shape"

\* test_tool takes from its input a line that does not deserialize
TakesUnparsable ==
    /\ cpc = "tool_read"
    /\ pipe # <<>>
    /\ Head(pipe).kind = "text"
    /\ pipe' = Tail(pipe)

\* test_tool takes from its input a Response: an error, or a result whose
\* first content element has a text
TakesValidResponse ==
    /\ cpc = "tool_read"
    /\ pipe # <<>>
    /\ \/ Head(pipe).kind = "error"
       \/ Head(pipe).kind = "result" /\ Head(pipe).shape = "text"
    /\ pipe' = Tail(pipe)

\* the call in progress ends with the outcome of the Response it has taken
DeliversResponse ==
    /\ cpc' = "returned"
    /\ outcome'.line = Head(pipe)
    /\ outcome'.ret = IF Head(pipe).kind = "result" THEN "True" ELSE "False"

\* C11 as claimed: a line that fails to deserialize is dropped and the call
\* stays pending, however many such lines came before it, and a valid
\* Response read afterwards is the outcome of that call.
C11_UnparsableNeverEndsTheCall ==
    [][/\ TakesUnparsable => (cpc' = cpc /\ outcome' = outcome /\ exc' = exc)
       /\ TakesValidResponse => DeliversResponse]_vars

\* C11, amended: in test_tool a line that fails to deserialize is dropped
\* and the call stays pending while fewer than MaxTries lines have been
\* read, that line included; as the MaxTries-th line read it ends the call
\* with False. A valid Response the call reads, after at most MaxTries - 1
\* such lines, is the outcome of that call.
C11_UnparsableIsSkippedUpToMaxTries ==
    [][/\ (TakesUnparsable /\ tries + 1 < MaxTries) =>
             /\ cpc' = cpc /\ outcome' = outcome /\ exc' = exc
             /\ tries' = tries + 1
       /\ (TakesUnparsable /\ tries + 1 >= MaxTries) =>
             /\ cpc' = "returned"
             /\ outcome'.ret = "False" /\ outcome'.why = "exhausted"
       /\ TakesValidResponse => DeliversResponse]_vars

\* nine lines that did not deserialize, then a Response with a result: the
\* call has returned with it
C11_Witness ==
    /\ cpc = "returned"
    /\ outcome.why = "result"
    /\ tries = MaxTries
    /\ unparsable = MaxTries - 1

\* ------------------------------- properties of check_tool_name_lengths.py

NotLonger(name) == Len(name) <= max_len
Longer(name) == Len(name) > max_len

\* C13: the lists check_tool_name_lengths returns are the names of at most
\* max_len characters and the longer names, each in input order; main
\* returns 1 if some name is longer than max_len and 0 otherwise.
C13_PartitionAndExitCode ==
    /\ npc \in {"returned", "exit"} =>
          /\ valid = SelectSeq(tool_names, NotLonger)
          /\ invalid = SelectSeq(tool_names, Longer)
    /\ npc = "exit" =>
          exitCode = IF \E i \in 1..Len(tool_names) : Len(tool_names[i]) > max_len
                     THEN 1 ELSE 0

\* main has returned 1: a name of exactly max_len characters is valid, and
\* two different longer names are invalid, in input order
C13_Witness ==
    /\ npc = "exit"
    /\ exitCode = 1
    /\ \E i \in 1..Len(valid) : Len(valid[i]) = max_len
    /\ Len(invalid) = 2
    /\ invalid[1] # invalid[2]

\* -------------------------------------------- the read loop of test_tool

\* test_tool returns from a readline, with a line or with end-of-input
ReadsOne == cpc = "tool_read" /\ tries' = tries + 1

\* the line at hand is one the loop passes over: blank, not JSON, or a JSON
\* object with neither a result nor an error key
Skippable(line) == line.kind \in {"blank", "text", "object"}

ReturnsWith(ret) == cpc' = "returned" /\ outcome'.ret = ret

\* C14: a call reads at most MaxTries lines, one at a time and leaving the
\* rest on the stream; a blank line, a line that is not JSON and an object
\* with neither key each use one up, and the one that uses the last up ends
\* the call with False; the first object with a result or an error key ends
\* the call, with True if it has a result key and with False if not;
\* end-of-input ends the call with False.
C14_ReadLoopOfTestTool ==
    [][ReadsOne =>
          /\ tries < MaxTries
          /\ pipe' = IF pipe = <<>> THEN pipe ELSE Tail(pipe)
          /\ pipe = <<>> => ReturnsWith("False")
          /\ (pipe # <<>> /\ Skippable(Head(pipe))) =>
                IF tries + 1 < MaxTries
                THEN cpc' = "tool_read" /\ outcome' = outcome
                ELSE ReturnsWith("False")
          /\ (pipe # <<>> /\ Head(pipe).kind = "result") => ReturnsWith("True")
          /\ (pipe # <<>> /\ Head(pipe).kind = "error") => ReturnsWith("False")
       ]_vars
====
